---- MODULE Spec2Model ----
(***************************************************************************)
(* Model of the letterboxd-watchlist scraper.                              *)
(*                                                                         *)
(*   Spec        one get_user_watchlist(username, max_concurrent) call:    *)
(*               count resolution, then the bounded concurrent paginator.  *)
(*   FairSpec    Spec with weak fairness: every issued HTTP fetch          *)
(*               completes and the event loop runs every runnable task.    *)
(*   SpecStats   one get_multiple_movie_stats(slugs) call.                 *)
(*   SpecExtract one get_movie_stats(session, slug) call on any page.      *)
(*                                                                         *)
(* An HTTP response is a status and a parsed document.  Exceptions are     *)
(* values [type, msg]; NoExc means "nothing was raised".                   *)
(***************************************************************************)
EXTENDS Integers, Sequences, FiniteSets

VARIABLES
    \* ---- get_common_watchlist.py: one get_user_watchlist call
    pc,              \* "count" | "gather" | "done": position of get_user_watchlist
    max_concurrent,  \* argument of get_user_watchlist / get_full_watchlist
    landing,         \* response served to get_watchlist_count's fetch (history)
    watchlist_count, \* first value returned by get_watchlist_count
    num_pages,       \* second value returned by get_watchlist_count
    page_urls,       \* get_full_watchlist: page number behind each URL, in order
    semaphore,       \* asyncio.Semaphore: number of free permits
    task,            \* per fetch_page_slugs task: "pending" | "fetching" | "sleeping" | "done" | "raised"
    issued,          \* per task: number of HTTP GETs it has issued
    served,          \* per task: response it received (history)
    slugs,           \* per task: local variable slugs of fetch_page_slugs
    results,         \* per task: value returned by fetch_page_slugs
    result,          \* dict returned by get_user_watchlist
    raised,          \* exception that left get_user_watchlist, or NoExc
    \* ---- get_watchlist_data.py: one get_multiple_movie_stats call
    film_slugs,      \* argument slugs
    stat_task,       \* per get_movie_stats task: "pending" | "fetching" | "returned" | "raised"
    stat_served,     \* per task: response it received (history)
    stat_ret,        \* per task: value returned or exception raised
    stat_order,      \* task positions in order of completion
    batch_pc,        \* "gather" | "returned" | "raised"
    batch_result,    \* list returned by get_multiple_movie_stats
    \* ---- get_watchlist_data.py: one get_movie_stats call
    ex_pc,           \* "fetching" | "done"
    ex_response,     \* response served to the call
    ex_out           \* its outcome

pipeline_vars == <<pc, max_concurrent, landing, watchlist_count, num_pages, page_urls,
                   semaphore, task, issued, served, slugs, results, result, raised>>
batch_vars == <<film_slugs, stat_task, stat_served, stat_ret, stat_order, batch_pc,
                batch_result>>
extract_vars == <<ex_pc, ex_response, ex_out>>
vars == <<pipeline_vars, batch_vars, extract_vars>>

(***************************************************************************)
(* Bounds of the model.                                                    *)
(***************************************************************************)
MaxPages == 3
MaxConcurrent == 3
MaxSlugs == 3

(***************************************************************************)
(* Program constants.                                                      *)
(***************************************************************************)
PAGE_CAPACITY == 28
HTTP_OK == 200

\* Statuses a server answers with when it does not answer 200.
BadStatuses == {404}

Username == "user"

NoExc == [type |-> "none", msg |-> "none"]
ValueError(m) == [type |-> "ValueError", msg |-> m]
IndexError(m) == [type |-> "IndexError", msg |-> m]
AttributeError(m) == [type |-> "AttributeError", msg |-> m]

RECURSIVE Flatten(_)
Flatten(lists) ==
    IF lists = <<>> THEN <<>> ELSE Head(lists) \o Flatten(Tail(lists))

(***************************************************************************)
(* Documents.  A text is a sequence of whitespace-delimited tokens; a      *)
(* token either spells a number (with its value) or does not.              *)
(***************************************************************************)
Num(n) == [numeric |-> TRUE, value |-> n]
Word == [numeric |-> FALSE, value |-> 0]

\* Watchlist counts served: those at and next to a page boundary.
Counts ==
    {n \in 0..(MaxPages * PAGE_CAPACITY) : n % PAGE_CAPACITY \in {0, 1, PAGE_CAPACITY - 1}}

\* Watchlist landing page: the text of span.js-watchlist-count, if any.
CountTexts ==
    {<<>>, <<Word>>, <<Word, Num(1)>>} \cup {<<Num(n), Word>> : n \in Counts}

LandingResponses ==
    {[status |-> st, has_count |-> FALSE, text |-> <<>>] : st \in BadStatuses \cup {HTTP_OK}}
    \cup {[status |-> HTTP_OK, has_count |-> TRUE, text |-> t] : t \in CountTexts}

\* Watchlist page: elements in document order, some carrying data-item-slug.
Item(s) == [has_slug |-> TRUE, slug |-> s]
Plain == [has_slug |-> FALSE, slug |-> ""]

PageBodies ==
    {<<>>, <<Item("a"), Plain, Item("b")>>, <<Item("c"), Item("c")>>}

PageResponses ==
    {[status |-> st, body |-> <<>>] : st \in BadStatuses}
    \cup {[status |-> HTTP_OK, body |-> b] : b \in PageBodies}

NoResponse == [status |-> 0, body |-> <<>>]

(***************************************************************************)
(* get_common_watchlist.py                                                 *)
(***************************************************************************)
\* fetch_page: the body, or ValueError on a status other than 200.
fetch_page(response) ==
    IF response.status # HTTP_OK
    THEN [exc |-> ValueError("fetch"), html |-> <<>>]
    ELSE [exc |-> NoExc, html |-> response.body]

\* int(token)
int(token) ==
    IF token.numeric THEN [exc |-> NoExc, value |-> token.value]
    ELSE [exc |-> ValueError("int"), value |-> 0]

calc_num_pages_floor(count) == count \div PAGE_CAPACITY
calc_num_pages(count) == (count + 27) \div PAGE_CAPACITY

get_watchlist_count(response) ==
    LET failed(m) == [exc |-> ValueError(m), watchlist_count |-> 0, num_pages |-> 0]
    IN  IF response.status # HTTP_OK THEN failed("fetch")
        ELSE IF ~response.has_count THEN failed("count-not-found")
        ELSE IF response.text = <<>> THEN failed("count-parse")   \* IndexError, re-raised
        ELSE IF int(response.text[1]).exc # NoExc THEN failed("count-parse")
        ELSE [exc |-> NoExc,
              watchlist_count |-> int(response.text[1]).value,
              num_pages |-> calc_num_pages(int(response.text[1]).value)]

get_film_slugs_from_html(html) ==
    LET has(e) == e.has_slug
        elements == SelectSeq(html, has)
    IN  [k \in 1..Len(elements) |-> elements[k].slug]

\* asyncio.Semaphore(max_concurrent)
Semaphore_off_by_one(value) == value + 1
Semaphore(value) == value

\* Semaphore.acquire proceeds only while a permit is free.
can_acquire(value) == value > 0

\* "async with semaphore" leaves through __aexit__ on every path.
release_skipped(value) == value
release(value) == value + 1

\* the except clause of fetch_page_slugs
fetch_page_slugs_catches_IndexError(exc) == exc.type = "IndexError"
fetch_page_slugs_catches(exc) == exc.type = "ValueError"

\* the except clause of get_user_watchlist
get_user_watchlist_catches_nothing(exc) == FALSE
get_user_watchlist_catches(exc) == exc.type = "ValueError"

\* page numbers behind the URLs get_full_watchlist generates
make_page_urls(n) == <<1>> \o [k \in 1..(IF n >= 2 THEN n - 1 ELSE 0) |-> k + 1]

\* asyncio.gather: the tasks' return values, by task position
gather(rets) == rets

success_result(count, pages, films) ==
    [username |-> Username, total_count |-> count, num_pages |-> pages,
     films |-> films, films_fetched |-> Len(films)]

error_result(exc) == [username |-> Username, error |-> exc.msg]

NoResult == [username |-> Username]

\* An exception reaches the try block of get_user_watchlist.
Handle(exc) ==
    IF get_user_watchlist_catches(exc)
    THEN result' = error_result(exc) /\ raised' = NoExc
    ELSE result' = NoResult /\ raised' = exc

Tasks == 1..Len(page_urls)

\* get_user_watchlist up to the gather of get_full_watchlist.
CountResolved ==
    /\ pc = "count"
    /\ \E response \in LandingResponses :
        LET r == get_watchlist_count(response)
            urls == make_page_urls(r.num_pages)
            each(v) == [i \in 1..Len(urls) |-> v]
        IN  /\ landing' = response
            /\ IF r.exc # NoExc
               THEN /\ Handle(r.exc)
                    /\ pc' = "done"
                    /\ UNCHANGED <<watchlist_count, num_pages, page_urls, semaphore,
                                   task, issued, served, slugs, results>>
               ELSE /\ watchlist_count' = r.watchlist_count
                    /\ num_pages' = r.num_pages
                    /\ page_urls' = urls
                    /\ semaphore' = Semaphore(max_concurrent)
                    /\ task' = each("pending")
                    /\ issued' = each(0)
                    /\ served' = each(NoResponse)
                    /\ slugs' = each(<<>>)
                    /\ results' = each(<<>>)
                    /\ pc' = "gather"
                    /\ UNCHANGED <<result, raised>>
    /\ UNCHANGED <<max_concurrent, batch_vars, extract_vars>>

\* fetch_page_slugs: enter "async with semaphore" and issue the GET.
Acquire(i) ==
    /\ pc = "gather"
    /\ task[i] = "pending"
    /\ can_acquire(semaphore)
    /\ semaphore' = semaphore - 1
    /\ task' = [task EXCEPT ![i] = "fetching"]
    /\ issued' = [issued EXCEPT ![i] = @ + 1]
    /\ UNCHANGED <<pc, max_concurrent, landing, watchlist_count, num_pages, page_urls,
                   served, slugs, results, result, raised, batch_vars, extract_vars>>

\* fetch_page_slugs: the GET completes; parse, or catch and return [].
FetchCompletes(i) ==
    /\ pc = "gather"
    /\ task[i] = "fetching"
    /\ \E response \in PageResponses :
        LET r == fetch_page(response)
        IN  /\ served' = [served EXCEPT ![i] = response]
            /\ IF r.exc = NoExc
               THEN /\ slugs' = [slugs EXCEPT ![i] = get_film_slugs_from_html(r.html)]
                    /\ task' = [task EXCEPT ![i] = "sleeping"]
                    /\ UNCHANGED <<semaphore, results, pc, result, raised>>
               ELSE IF fetch_page_slugs_catches(r.exc)
               THEN /\ results' = [results EXCEPT ![i] = <<>>]
                    /\ task' = [task EXCEPT ![i] = "done"]
                    /\ semaphore' = release(semaphore)
                    /\ UNCHANGED <<slugs, pc, result, raised>>
               ELSE \* the exception leaves the task, gather and get_full_watchlist
                    /\ task' = [task EXCEPT ![i] = "raised"]
                    /\ semaphore' = release(semaphore)
                    /\ Handle(r.exc)
                    /\ pc' = "done"
                    /\ UNCHANGED <<slugs, results>>
    /\ UNCHANGED <<max_concurrent, landing, watchlist_count, num_pages, page_urls,
                   issued, batch_vars, extract_vars>>

\* fetch_page_slugs: asyncio.sleep(2) is over; return slugs, leave the semaphore.
SleepElapses(i) ==
    /\ pc = "gather"
    /\ task[i] = "sleeping"
    /\ results' = [results EXCEPT ![i] = slugs[i]]
    /\ task' = [task EXCEPT ![i] = "done"]
    /\ semaphore' = release(semaphore)
    /\ UNCHANGED <<pc, max_concurrent, landing, watchlist_count, num_pages, page_urls,
                   issued, served, slugs, result, raised, batch_vars, extract_vars>>

\* get_full_watchlist flattens the gathered lists; get_user_watchlist returns.
GatherReturns ==
    /\ pc = "gather"
    /\ \A i \in Tasks : task[i] = "done"
    /\ result' = success_result(watchlist_count, num_pages, Flatten(gather(results)))
    /\ pc' = "done"
    /\ UNCHANGED <<max_concurrent, landing, watchlist_count, num_pages, page_urls,
                   semaphore, task, issued, served, slugs, results, raised,
                   batch_vars, extract_vars>>

(***************************************************************************)
(* get_watchlist_data.py                                                   *)
(*                                                                         *)
(* A film page holds the elements get_movie_stats looks up.  The content   *)
(* of og:title is a string of characters; the other texts are token        *)
(* sequences.  A field of the returned tuple is Some(v) or None.           *)
(***************************************************************************)
Some(v) == [some |-> TRUE, v |-> v]
None == [some |-> FALSE, v |-> <<>>]

Present(c) == [present |-> TRUE, content |-> c]
Absent == [present |-> FALSE, content |-> <<>>]

Slugs == {"a", "b"}

\* og:title of the page of each film: "Up (2009)" and "(5) (9)"
TitleOf(slug) ==
    IF slug = "a" THEN <<"U", "p", " ", "(", "2", "0", "0", "9", ")">>
    ELSE <<"(", "5", ")", " ", "(", "9", ")">>

Elements(titles, directors, ratings, durations, headers, divs) ==
    [og_title : titles, director : directors, rating : ratings,
     duration : durations, genre_header : headers, genre_div : divs]

\* every combination of absent and present elements
FilmPages(slug) ==
    Elements({Absent, Present(TitleOf(slug))},
             {Absent, Present("Pete Docter")},
             {Absent, Present(<<Num(4), Word>>), Present(<<Word>>)},
             {Absent, Present(<<Num(96), Word>>), Present(<<>>)},
             BOOLEAN,
             {Absent, Present(<<>>), Present(<<"Drama", "Crime">>)})

\* the pages a batch is served: complete, without rating, with a rating
\* that is not a number
BatchPages(slug) ==
    Elements({Present(TitleOf(slug))},
             {Present("Pete Docter")},
             {Absent, Present(<<Num(4), Word>>), Present(<<Word>>)},
             {Present(<<Num(96), Word>>)},
             {TRUE},
             {Present(<<"Drama", "Crime">>)})

NoPage == Elements({Absent}, {Absent}, {Absent}, {Absent}, {FALSE}, {Absent})

FilmResponses(slug, pages) ==
    {[url |-> slug, status |-> st, page |-> p] : st \in BadStatuses, p \in NoPage}
    \cup {[url |-> slug, status |-> HTTP_OK, page |-> p] : p \in pages}

\* str.split(sep) on a string of characters
RECURSIVE split(_, _, _)
split(s, sep, piece) ==
    IF s = <<>> THEN <<piece>>
    ELSE IF Head(s) = sep THEN <<piece>> \o split(Tail(s), sep, <<>>)
    ELSE split(Tail(s), sep, Append(piece, Head(s)))

\* str.strip(chars) for one character
RECURSIVE strip(_, _)
strip(s, ch) ==
    IF s = <<>> THEN s
    ELSE IF Head(s) = ch THEN strip(Tail(s), ch)
    ELSE IF s[Len(s)] = ch THEN strip(SubSeq(s, 1, Len(s) - 1), ch)
    ELSE s

\* ', '.join(texts)
RECURSIVE join(_)
join(texts) ==
    IF texts = <<>> THEN <<>>
    ELSE IF Len(texts) = 1 THEN texts
    ELSE <<Head(texts), ", ">> \o join(Tail(texts))

\* float(token)
float(token) ==
    IF token.numeric THEN [exc |-> NoExc, value |-> token.value]
    ELSE [exc |-> ValueError("float"), value |-> 0]

Field(exc, value) == [exc |-> exc, value |-> value]

field_title(page) ==
    IF page.og_title.present
    THEN Field(NoExc, Some(split(page.og_title.content, "(", <<>>)[1]))
    ELSE Field(NoExc, None)

field_director(page) ==
    IF page.director.present
    THEN Field(NoExc, Some(page.director.content))
    ELSE Field(NoExc, None)

field_rating_guarded(page) ==
    IF page.rating.present /\ float(page.rating.content[1]).exc = NoExc
    THEN Field(NoExc, Some(float(page.rating.content[1]).value))
    ELSE Field(NoExc, None)
field_rating(page) ==
    IF page.rating.present
    THEN Field(float(page.rating.content[1]).exc, Some(float(page.rating.content[1]).value))
    ELSE Field(NoExc, None)

field_year(page) ==
    IF page.og_title.present
    THEN LET pieces == split(page.og_title.content, "(", <<>>)
         IN  Field(NoExc, Some(strip(pieces[Len(pieces)], ")")))
    ELSE Field(NoExc, None)

field_duration(page) ==
    IF ~page.duration.present THEN Field(NoExc, None)
    ELSE IF page.duration.content = <<>> THEN Field(IndexError("duration"), None)
    ELSE Field(NoExc, Some(page.duration.content[1]))

field_genres(page) ==
    IF ~page.genre_header THEN Field(NoExc, None)
    ELSE IF ~page.genre_div.present THEN Field(AttributeError("genre_div"), None)
    ELSE Field(NoExc, Some(join(page.genre_div.content)))

NoStats ==
    [title |-> None, director |-> None, rating |-> None,
     genres |-> None, year |-> None, duration |-> None]

Outcome(exc, is_none, stats) == [exc |-> exc, is_none |-> is_none, stats |-> stats]

\* a status other than 200: print and return None
bad_status_raises == Outcome(ValueError("fetch"), FALSE, NoStats)
bad_status == Outcome(NoExc, TRUE, NoStats)

get_movie_stats(response) ==
    IF response.status # HTTP_OK THEN bad_status
    ELSE LET page == response.page
             fields == <<field_title(page), field_director(page), field_rating(page),
                         field_year(page), field_duration(page), field_genres(page)>>
             failing == {k \in 1..6 : fields[k].exc # NoExc}
             first == CHOOSE k \in failing : \A l \in failing : k <= l
         IN  IF failing # {} THEN Outcome(fields[first].exc, FALSE, NoStats)
             ELSE Outcome(NoExc, FALSE,
                          [title |-> fields[1].value, director |-> fields[2].value,
                           rating |-> fields[3].value, genres |-> fields[6].value,
                           year |-> fields[4].value, duration |-> fields[5].value])

\* asyncio.gather in get_multiple_movie_stats: return values by task position
gather_stats_as_completed(rets, order) == [k \in 1..Len(order) |-> rets[order[k]]]
gather_stats(rets, order) == rets

AllSeqs(S, n) == UNION {[1..k -> S] : k \in 0..n}

StatTasks == 1..Len(film_slugs)

\* get_movie_stats: the GET of task i completes and the page is parsed.
StatsCompletes(i) ==
    /\ batch_pc = "gather"
    /\ stat_task[i] = "fetching"
    /\ \E response \in FilmResponses(film_slugs[i], BatchPages(film_slugs[i])) :
        LET r == get_movie_stats(response)
        IN  /\ stat_served' = [stat_served EXCEPT ![i] = response]
            /\ stat_ret' = [stat_ret EXCEPT ![i] = r]
            /\ IF r.exc = NoExc
               THEN /\ stat_task' = [stat_task EXCEPT ![i] = "returned"]
                    /\ stat_order' = Append(stat_order, i)
                    /\ UNCHANGED batch_pc
               ELSE \* gather raises the first exception to get_multiple_movie_stats
                    /\ stat_task' = [stat_task EXCEPT ![i] = "raised"]
                    /\ batch_pc' = "raised"
                    /\ UNCHANGED stat_order
    /\ UNCHANGED <<film_slugs, batch_result, pipeline_vars, extract_vars>>

\* get_multiple_movie_stats returns what gather returns.
BatchReturns ==
    /\ batch_pc = "gather"
    /\ \A i \in StatTasks : stat_task[i] = "returned"
    /\ batch_result' = gather_stats(stat_ret, stat_order)
    /\ batch_pc' = "returned"
    /\ UNCHANGED <<film_slugs, stat_task, stat_served, stat_ret, stat_order,
                   pipeline_vars, extract_vars>>

\* get_movie_stats on any page: the GET completes and the page is parsed.
ExtractCompletes ==
    /\ ex_pc = "fetching"
    /\ \E slug \in Slugs : \E response \in FilmResponses(slug, FilmPages(slug)) :
        /\ ex_response' = response
        /\ ex_out' = get_movie_stats(response)
    /\ ex_pc' = "done"
    /\ UNCHANGED <<pipeline_vars, batch_vars>>

(***************************************************************************)
(* Claims about the paginator and the per-user pipeline.                   *)
(***************************************************************************)
\* The count-resolution stage returned normally.
CountSucceeded == pc = "gather" \/ (pc = "done" /\ get_watchlist_count(landing).exc = NoExc)

Succeeded == pc = "done" /\ "films" \in DOMAIN result

\* Tasks inside "async with semaphore": fetching, or sleeping after a success.
Holders == {i \in Tasks : task[i] \in {"fetching", "sleeping"}}

\* What page task i contributes: the slugs of the page it was served, in
\* document order, or nothing when the fetch failed.
Contribution(i) ==
    IF served[i].status = HTTP_OK THEN get_film_slugs_from_html(served[i].body) ELSE <<>>

\* ceil(n / PAGE_CAPACITY): the least k with k * PAGE_CAPACITY >= n
Ceil(n) == CHOOSE k \in 0..n : k * PAGE_CAPACITY >= n /\ (k = 0 \/ (k - 1) * PAGE_CAPACITY < n)

\* C1: at any moment at most max_concurrent page tasks hold a permit (from
\* just before the fetch until the fetch failed or the 2 s delay elapsed),
\* and every task with a fetch in flight holds one of the permits taken.
C1_PermitBound ==
    CountSucceeded =>
        /\ Cardinality(Holders) <= max_concurrent
        /\ Cardinality(Holders) = max_concurrent - semaphore
        /\ semaphore >= 0

C1_Witness ==
    /\ pc = "gather"
    /\ max_concurrent >= 2
    /\ Cardinality(Holders) = max_concurrent
    /\ \E i \in Tasks : task[i] = "pending"
    /\ \E i \in Tasks : task[i] = "sleeping"
    /\ \E i \in Tasks : task[i] = "fetching"

\* C2 (as stated): the returned list is the concatenation of the slug lists
\* of pages 1, 2, ..., num_pages, in that order.
C2_PagesOneToNumPages ==
    Succeeded =>
        result.films = Flatten([p \in 1..num_pages |-> Contribution(p)])

\* C3: a failed page fetch is never raised out of the paginator; the failed
\* page contributes nothing and every other page's slugs appear in order.
C3_PageFailureIsolated ==
    (pc = "done" /\ CountSucceeded) =>
        /\ raised = NoExc
        /\ "films" \in DOMAIN result
        /\ result.films = Flatten([i \in Tasks |-> Contribution(i)])
        /\ \A i \in Tasks : task[i] = "done"

C3_Witness ==
    /\ Succeeded
    /\ \E i, j \in Tasks :
        /\ i < j
        /\ served[i].status \in BadStatuses
        /\ served[j].status = HTTP_OK
        /\ results[j] # <<>>
        /\ result.films # <<>>

\* C4 (as stated): with a resolved page count of 0 the paginator requests no
\* page, takes no permit and produces the empty list.
C4_ZeroPagesNoFetch ==
    (CountSucceeded /\ num_pages = 0) =>
        /\ \A i \in Tasks : issued[i] = 0
        /\ semaphore = max_concurrent
        /\ Succeeded => result.films = <<>>

\* C5 (as stated): num_pages = ceil(total_count / 28), the success result
\* carries the parsed total_count and that num_pages, and num_pages >= 1.
C5_NumPagesAtLeastOne ==
    Succeeded =>
        /\ result.total_count = landing.text[1].value
        /\ result.num_pages = Ceil(result.total_count)
        /\ result.num_pages >= 1

\* C5 (amended): num_pages = ceil(total_count / 28), the success result
\* carries the parsed total_count and that num_pages, and num_pages >= 0,
\* with num_pages = 0 exactly when total_count = 0.
C5_NumPagesCeil ==
    /\ \A n \in 0..(MaxPages * PAGE_CAPACITY) : calc_num_pages(n) = Ceil(n)
    /\ CountSucceeded =>
        /\ watchlist_count = landing.text[1].value
        /\ num_pages = Ceil(watchlist_count)
    /\ Succeeded =>
        /\ result.total_count = landing.text[1].value
        /\ result.num_pages = Ceil(result.total_count)
        /\ result.num_pages >= 0
        /\ (result.num_pages = 0) <=> (result.total_count = 0)

C5_Witness ==
    /\ Succeeded
    /\ result.total_count = PAGE_CAPACITY + 1
    /\ result.num_pages = 2

SuccessKeys == {"username", "total_count", "num_pages", "films", "films_fetched"}
ErrorKeys == {"username", "error"}

\* C6: no error of either stage leaves get_user_watchlist; it returns exactly
\* one of the two shapes, a success carries films_fetched = len(films), and a
\* failed count resolution gives the error shape with no page fetch issued.
C6_SingleErrorBoundary ==
    /\ raised = NoExc
    /\ pc = "done" =>
        /\ DOMAIN result \in {SuccessKeys, ErrorKeys}
        /\ DOMAIN result = SuccessKeys => result.films_fetched = Len(result.films)
        /\ get_watchlist_count(landing).exc # NoExc =>
            /\ DOMAIN result = ErrorKeys
            /\ Tasks = {}

C6_Witness ==
    /\ pc = "done"
    /\ landing.status = HTTP_OK
    /\ landing.has_count
    /\ DOMAIN result = ErrorKeys
    /\ result.error = "count-parse"

\* C10: once the paginator has dispatched its tasks, and every fetch
\* completes, it returns: every task ran once and all permits are free.
PaginatorReturned ==
    /\ Succeeded
    /\ \A i \in Tasks : task[i] = "done" /\ issued[i] = 1
    /\ semaphore = max_concurrent

C10_PaginatorTerminates == (pc = "gather") ~> PaginatorReturned

C10_Witness ==
    /\ PaginatorReturned
    /\ Len(page_urls) > max_concurrent
    /\ \E i \in Tasks : served[i].status \in BadStatuses
    /\ \E i \in Tasks : served[i].status = HTTP_OK

(***************************************************************************)
(* Claims about the film metadata extractor and the batch fetcher.         *)
(***************************************************************************)
\* The texts of the elements that are present have the expected form.
WellFormed(page) ==
    /\ page.rating.present => page.rating.content[1].numeric
    /\ page.duration.present => page.duration.content # <<>>

\* C7 (as stated): on a 200 response the six fields are independently
\* optional: for every subset of absent elements the call does not raise
\* and exactly the fields that depend on an absent element are absent.
C7_FieldsIndependentlyOptional ==
    (ex_pc = "done" /\ ex_response.status = HTTP_OK /\ WellFormed(ex_response.page)) =>
        LET page == ex_response.page
            stats == ex_out.stats
        IN  /\ ex_out.exc = NoExc
            /\ ~ex_out.is_none
            /\ stats.title.some <=> page.og_title.present
            /\ stats.year.some <=> page.og_title.present
            /\ stats.director.some <=> page.director.present
            /\ stats.rating.some <=> page.rating.present
            /\ stats.duration.some <=> page.duration.present
            /\ stats.genres.some <=> (page.genre_header /\ page.genre_div.present)

Completed(i) == stat_task[i] \in {"returned", "raised"}

\* C8: a 200 page whose rating does not start with a number makes its
\* extraction raise, and then get_multiple_movie_stats raises and delivers
\* no result for any slug; a 200 page without the rating element gives
\* rating = None without failure.
C8_NoPerTaskIsolation ==
    /\ \A i \in StatTasks :
        (Completed(i) /\ stat_served[i].status = HTTP_OK) =>
            LET rating == stat_served[i].page.rating
            IN  /\ (rating.present /\ ~rating.content[1].numeric) =>
                        stat_task[i] = "raised" /\ stat_ret[i].exc.type = "ValueError"
                /\ ~rating.present =>
                        /\ stat_task[i] = "returned"
                        /\ ~stat_ret[i].is_none
                        /\ ~stat_ret[i].stats.rating.some
                        /\ stat_ret[i].stats.title.some
    /\ (\E i \in StatTasks : stat_task[i] = "raised") =>
        batch_pc = "raised" /\ batch_result = <<>>
    /\ batch_pc = "raised" => \E i \in StatTasks : stat_task[i] = "raised"

C8_Witness ==
    /\ batch_pc = "raised"
    /\ \E i, j \in StatTasks :
        /\ stat_task[i] = "raised"
        /\ stat_task[j] = "returned"
        /\ ~stat_ret[j].is_none
        /\ stat_ret[j].stats.rating.some

\* C9: when no extraction raises, the returned sequence is as long as slugs
\* and its i-th entry is the result for slugs[i], whatever the completion
\* order; a slug answered with a non-success status gives None at its own
\* index, without raising.
C9_OrderPreserved ==
    /\ \A i \in StatTasks :
        (Completed(i) /\ stat_served[i].status # HTTP_OK) =>
            stat_task[i] = "returned" /\ stat_ret[i].is_none
    /\ batch_pc = "returned" =>
        /\ Len(batch_result) = Len(film_slugs)
        /\ \A i \in StatTasks :
            /\ stat_served[i].url = film_slugs[i]
            /\ batch_result[i].exc = NoExc
            /\ batch_result[i].is_none <=> stat_served[i].status # HTTP_OK
            /\ ~batch_result[i].is_none =>
                /\ batch_result[i].stats.title =
                       Some(split(TitleOf(film_slugs[i]), "(", <<>>)[1])
                /\ batch_result[i].stats.rating.some <=> stat_served[i].page.rating.present

C9_Witness ==
    /\ batch_pc = "returned"
    /\ Len(film_slugs) = MaxSlugs
    /\ \E i, j \in StatTasks :
        /\ i < j
        /\ film_slugs[i] # film_slugs[j]
        /\ batch_result[i].is_none
        /\ ~batch_result[j].is_none
    /\ \E k \in 1..(Len(stat_order) - 1) : stat_order[k] > stat_order[k + 1]

InitPipeline ==
    /\ pc = "count"
    /\ max_concurrent \in 1..MaxConcurrent
    /\ landing = [status |-> 0, has_count |-> FALSE, text |-> <<>>]
    /\ watchlist_count = 0
    /\ num_pages = 0
    /\ page_urls = <<>>
    /\ semaphore = 0
    /\ task = <<>>
    /\ issued = <<>>
    /\ served = <<>>
    /\ slugs = <<>>
    /\ results = <<>>
    /\ result = NoResult
    /\ raised = NoExc

IdleBatch ==
    /\ film_slugs = <<>>
    /\ stat_task = <<>>
    /\ stat_served = <<>>
    /\ stat_ret = <<>>
    /\ stat_order = <<>>
    /\ batch_pc = "idle"
    /\ batch_result = <<>>

NoFilmResponse == [url |-> "", status |-> 0, page |-> CHOOSE p \in NoPage : TRUE]

\* get_multiple_movie_stats has created one get_movie_stats task per slug.
InitBatch ==
    /\ film_slugs \in AllSeqs(Slugs, MaxSlugs)
    /\ stat_task = [i \in StatTasks |-> "fetching"]
    /\ stat_served = [i \in StatTasks |-> NoFilmResponse]
    /\ stat_ret = [i \in StatTasks |-> bad_status]
    /\ stat_order = <<>>
    /\ batch_pc = "gather"
    /\ batch_result = <<>>

IdleExtract ==
    /\ ex_pc = "idle"
    /\ ex_response = NoFilmResponse
    /\ ex_out = bad_status

InitExtract ==
    /\ ex_pc = "fetching"
    /\ ex_response = NoFilmResponse
    /\ ex_out = bad_status

IdlePipeline ==
    /\ InitPipeline
    /\ max_concurrent = 1

Init == InitPipeline /\ IdleBatch /\ IdleExtract

Next ==
    \/ CountResolved
    \/ \E i \in Tasks : Acquire(i)
    \/ \E i \in Tasks : FetchCompletes(i)
    \/ \E i \in Tasks : SleepElapses(i)
    \/ GatherReturns

Spec == Init /\ [][Next]_vars

FairSpec == Spec /\ WF_vars(Next)

InitStats == IdlePipeline /\ InitBatch /\ IdleExtract

NextStats ==
    \/ \E i \in StatTasks : StatsCompletes(i)
    \/ BatchReturns

SpecStats == InitStats /\ [][NextStats]_vars

InitEx == IdlePipeline /\ IdleBatch /\ InitExtract

NextExtract == ExtractCompletes

SpecExtract == InitEx /\ [][NextExtract]_vars
====
